---- MODULE Spec2Model ----
(***************************************************************************)
(* Model of the synchronous HD44780 / PCF8574 LCD driver                   *)
(* (src/src/sync_lcd.rs, struct Lcd<ROWS, COLUMNS, I, D>).                 *)
(*                                                                         *)
(* The driver is single threaded and blocking.  Every public method is     *)
(* one action; the action runs the whole method over a recording bus and   *)
(* a recording delay source and leaves the recorded traffic of that call   *)
(* in the history variables events and log.  The transport may fail at     *)
(* the failAt-th write of a call (0: it does not fail).                    *)
(***************************************************************************)
EXTENDS Integers, Naturals, Sequences, FiniteSets, TLC

VARIABLES
    ROWS,             \* const generic ROWS: u8
    COLUMNS,          \* const generic COLUMNS: u8
    address,          \* Lcd.address
    backlight_state,  \* Lcd.backlight_state (as u8)
    cursor_on,        \* Lcd.cursor_on
    cursor_blink,     \* Lcd.cursor_blink
    font_mode,        \* Lcd.font_mode (as u8)
    phase,            \* "built" | "ready" | "dropped" | "panicked"
    pc,               \* caller: "idle" (between calls) | "returned" (looking at a result)
    op,               \* the most recent call: [name, args, failAt]
    result,           \* its outcome: "none" | "ok" | "err" | "panic"
    events,           \* history: transport writes and delays of the most recent call
    log,              \* history: completed direct writes, write4bits and send calls of it
    pre,              \* history: the mirrored fields when the most recent call started
    hw,               \* history: bytes the controller was last given by a completed write
    prev              \* history: the call before the most recent one, where the caller kept it

vars == <<ROWS, COLUMNS, address, backlight_state, cursor_on, cursor_blink, font_mode,
          phase, pc, op, result, events, log, pre, hw, prev>>

-----------------------------------------------------------------------------
(* Enumerations and tables of the crate root (use crate::{...}).           *)

Mode_Cmd == 0
Mode_Data == 1
Mode_EntrySet == 4
Mode_DisplayControl == 8
Mode_FunctionSet == 32
Mode_CGRAMAddr == 64
Mode_DDRAMAddr == 128

Commands_Clear == 1
Commands_ReturnHome == 2
Commands_ShiftCursorLeft == 16
Commands_ShiftCursorRight == 20
Commands_ShiftDisplayLeft == 24
Commands_ShiftDisplayRight == 28

BitMode_Bit4 == 0
BitMode_Bit8 == 16

DisplayControl_Off == 0
DisplayControl_CursorBlink == 1
DisplayControl_CursorOn == 2
DisplayControl_DisplayOn == 4

Backlight_Off == 0
Backlight_On == 8

Font_Font5x8 == 0
Font_Font5x10 == 4

CursorMoveDir_Left == 2
DisplayShift_Decrement == 0

OFFSETS_NORMAL == <<0, 64, 20, 84>>
OFFSETS_16X4 == <<0, 64, 16, 80>>

Backlight == {Backlight_Off, Backlight_On}
Font == {Font_Font5x8, Font_Font5x10}

-----------------------------------------------------------------------------
(* u8 arithmetic.                                                          *)

U8Max == 255

RECURSIVE BitAnd(_, _)
BitAnd(a, b) ==
    IF a = 0 \/ b = 0 THEN 0
    ELSE (a % 2) * (b % 2) + 2 * BitAnd(a \div 2, b \div 2)

RECURSIVE BitOr(_, _)
BitOr(a, b) ==
    IF a = 0 THEN b
    ELSE IF b = 0 THEN a
    ELSE (IF a % 2 = 1 \/ b % 2 = 1 THEN 1 ELSE 0) + 2 * BitOr(a \div 2, b \div 2)

\* x << n on a u8: the bits shifted out are dropped
Shl(x, n) == (x * (2 ^ n)) % (U8Max + 1)

\* c as u8 for a char c: the code point truncated to its low byte
AsU8(c) == c % (U8Max + 1)

-----------------------------------------------------------------------------
(* The running call: the fields of self plus the recording bus and delay.  *)
(* st = "ok" while the method is still executing; "err" once a `?` has     *)
(* returned a bus error; "panic" once an assert or an index check failed.  *)

Call(failAt) ==
    [address |-> address, backlight_state |-> backlight_state,
     cursor_on |-> cursor_on, cursor_blink |-> cursor_blink, font_mode |-> font_mode,
     events |-> <<>>, log |-> <<>>, writes |-> 0, failAt |-> failAt, st |-> "ok"]

WriteEv(addr, byte, ok) == [kind |-> "write", addr |-> addr, val |-> byte, ok |-> ok]
DelayEv(kind, n) == [kind |-> kind, addr |-> 0, val |-> n, ok |-> TRUE]
LogEv(kind, mode, data) == [kind |-> kind, mode |-> mode, data |-> data]

\* self.i2c.write(self.address, &[byte])?
i2c_write(self, byte) ==
    IF self.writes + 1 = self.failAt
    THEN [self EXCEPT !.events = Append(@, WriteEv(self.address, byte, FALSE)),
                      !.writes = @ + 1,
                      !.st = "err"]
    ELSE [self EXCEPT !.events = Append(@, WriteEv(self.address, byte, TRUE)),
                      !.writes = @ + 1]

\* self.delay.delay_ms(n)
delay_ms(self, n) ==
    [self EXCEPT !.events = Append(@, DelayEv("delay_ms", n))]

\* self.delay.delay_us(n)
delay_us(self, n) ==
    [self EXCEPT !.events = Append(@, DelayEv("delay_us", n))]

\* history: a call of the named kind has returned Ok
Completed(self, kind, mode, data) ==
    IF self.st # "ok" THEN self
    ELSE [self EXCEPT !.log = Append(@, LogEv(kind, mode, data))]

\* panic!: an assert, an index check or an arithmetic overflow check failed
Panic(self) == [self EXCEPT !.st = "panic"]

-------------------------------------------------------------------------------------------------------------------------------------------------------------------------------------------------------------------
(* The methods of Lcd.                                                     *)

\* `x?; rest`: a bus error (or a panic) in x is returned at once, rest is not run
AndThen(a, rest(_)) == IF a.st # "ok" THEN a ELSE rest(a)

\* mutant of write4bits: the closing write restates no backlight bit
write4bits_drop_backlight(self, data) ==
    AndThen(i2c_write(self, BitOr(BitOr(data, DisplayControl_Off), self.backlight_state)),
      LAMBDA a :
    AndThen(i2c_write(a, BitOr(BitOr(data, DisplayControl_DisplayOn), a.backlight_state)),
      LAMBDA b :
    AndThen(i2c_write(b, DisplayControl_Off),
      LAMBDA c :
    Completed(delay_us(c, 700), "write4bits", 0, data))))

\* mutant of write4bits: the closing write keeps the nibble on the data lines
write4bits_hold_data(self, data) ==
    AndThen(i2c_write(self, BitOr(BitOr(data, DisplayControl_Off), self.backlight_state)),
      LAMBDA a :
    AndThen(i2c_write(a, BitOr(BitOr(data, DisplayControl_DisplayOn), a.backlight_state)),
      LAMBDA b :
    AndThen(i2c_write(b, BitOr(BitOr(data, DisplayControl_Off), b.backlight_state)),
      LAMBDA c :
    Completed(delay_us(c, 700), "write4bits", 0, data))))

\* mutant of write4bits: the settle delay is taken before the closing write
write4bits_settle_early(self, data) ==
    AndThen(i2c_write(self, BitOr(BitOr(data, DisplayControl_Off), self.backlight_state)),
      LAMBDA a :
    AndThen(i2c_write(a, BitOr(BitOr(data, DisplayControl_DisplayOn), a.backlight_state)),
      LAMBDA b :
    AndThen(i2c_write(delay_us(b, 700), BitOr(DisplayControl_Off, b.backlight_state)),
      LAMBDA c :
    Completed(c, "write4bits", 0, data))))

write4bits(self, data) ==
    AndThen(i2c_write(self, BitOr(BitOr(data, DisplayControl_Off), self.backlight_state)),
      LAMBDA a :
    AndThen(i2c_write(a, BitOr(BitOr(data, DisplayControl_DisplayOn), a.backlight_state)),
      LAMBDA b :
    AndThen(i2c_write(b, BitOr(DisplayControl_Off, b.backlight_state)),
      LAMBDA c :
    Completed(delay_us(c, 700), "write4bits", 0, data))))

\* the second half of send: the low nibble, once the high nibble is out
send_low(a, data, mode) ==
    AndThen(write4bits(a, BitOr(BitAnd(Shl(data, 4), 240), mode)),
      LAMBDA b :
    Completed(b, "send", mode, data))

\* mutant of send: the result of the first write4bits is dropped, not returned
send_unchecked(self, data, mode) ==
    send_low([write4bits(self, BitOr(BitAnd(data, 240), mode)) EXCEPT !.st = "ok"],
             data, mode)

\* mutant of send: the low nibble is not shifted up, the high nibble goes out twice
send_high_twice(self, data, mode) ==
    AndThen(write4bits(self, BitOr(BitAnd(data, 240), mode)),
      LAMBDA a :
    AndThen(write4bits(a, BitOr(BitAnd(data, 240), mode)),
      LAMBDA b :
    Completed(b, "send", mode, data)))

send(self, data, mode) ==
    AndThen(write4bits(self, BitOr(BitAnd(data, 240), mode)),
      LAMBDA a :
    send_low(a, data, mode))

command(self, data) == send(self, data, Mode_Cmd)

\* mutant of backlight: the on-write also raises the enable line
backlight_with_enable(self, bl) ==
    Completed(i2c_write([self EXCEPT !.backlight_state = bl],
                        BitOr(IF bl = Backlight_On THEN DisplayControl_DisplayOn
                                                   ELSE DisplayControl_Off, bl)),
              "direct", 0, bl)

backlight(self, bl) ==
    Completed(i2c_write([self EXCEPT !.backlight_state = bl], BitOr(DisplayControl_Off, bl)),
              "direct", 0, BitOr(DisplayControl_Off, bl))

\* for c in data.chars() { self.send(c as u8, Mode::Data)?; }
RECURSIVE write_str_from(_, _, _)
write_str_from(self, data, i) ==
    IF i > Len(data) THEN self
    ELSE AndThen(send(self, AsU8(data[i]), Mode_Data),
           LAMBDA a : write_str_from(a, data, i + 1))

\* mutant of write_str: the first character is skipped
write_str_skip_first(self, data) == write_str_from(self, data, 2)

write_str(self, data) == write_str_from(self, data, 1)

clear(self) ==
    AndThen(command(self, Commands_Clear), LAMBDA a : delay_ms(a, 2))

return_home(self) ==
    AndThen(command(self, Commands_ReturnHome), LAMBDA a : delay_ms(a, 2))

\* mutant of set_cursor: the column assert is left out
set_cursor_unchecked_col(self, rows, columns, row, col, overflow_checks) ==
    IF ~(row < rows) THEN Panic(self)
    ELSE LET offset == IF rows = 4 /\ columns = 16
                       THEN OFFSETS_16X4[row + 1]
                       ELSE OFFSETS_NORMAL[row + 1]
         IN  IF col + offset > U8Max /\ overflow_checks THEN Panic(self)
             ELSE command(self, BitOr(Mode_DDRAMAddr, (col + offset) % (U8Max + 1)))

\* col + offset on u8: an overflow panics where overflow checks are compiled in
\* (debug profile) and wraps where they are not (release profile)
set_cursor(self, rows, columns, row, col, overflow_checks) ==
    IF ~(row < rows) THEN Panic(self)
    ELSE IF ~(col < columns) THEN Panic(self)
    ELSE LET offset == IF rows = 4 /\ columns = 16
                       THEN OFFSETS_16X4[row + 1]
                       ELSE OFFSETS_NORMAL[row + 1]
         IN  IF col + offset > U8Max /\ overflow_checks THEN Panic(self)
             ELSE command(self, BitOr(Mode_DDRAMAddr, (col + offset) % (U8Max + 1)))

\* mutant of update_display_control: the blink flag is left out of the byte
update_display_control_no_blink(self) ==
    command(self, BitOr(Mode_DisplayControl,
                        IF self.cursor_on
                        THEN BitOr(DisplayControl_DisplayOn, DisplayControl_CursorOn)
                        ELSE DisplayControl_DisplayOn))

\* mutant of update_display_control: the blink bit replaces the cursor bit
update_display_control_blink_only(self) ==
    command(self, BitOr(Mode_DisplayControl,
                        IF self.cursor_blink
                        THEN BitOr(DisplayControl_DisplayOn, DisplayControl_CursorBlink)
                        ELSE IF self.cursor_on
                        THEN BitOr(DisplayControl_DisplayOn, DisplayControl_CursorOn)
                        ELSE DisplayControl_DisplayOn))

\* the second `let display_ctrl`: the blink bit added to the byte so far
with_blink(self, display_ctrl) ==
    IF self.cursor_blink
    THEN BitOr(display_ctrl, DisplayControl_CursorBlink)
    ELSE display_ctrl

update_display_control(self) ==
    command(self,
            BitOr(Mode_DisplayControl,
                  with_blink(self,
                             IF self.cursor_on
                             THEN BitOr(DisplayControl_DisplayOn, DisplayControl_CursorOn)
                             ELSE DisplayControl_DisplayOn)))

cursor_blink_fn(self, blink) ==
    update_display_control([self EXCEPT !.cursor_blink = blink])

\* mutant of cursor_on: the flag is restored when the write fails
restore_cursor_on(a, old) ==
    IF a.st = "ok" THEN a ELSE [a EXCEPT !.cursor_on = old]

cursor_on_rollback(self, on) ==
    restore_cursor_on(update_display_control([self EXCEPT !.cursor_on = on]),
                      self.cursor_on)

\* mutant of cursor_on: the flag is flipped, whatever the argument
cursor_on_toggle(self, on) ==
    update_display_control([self EXCEPT !.cursor_on = ~self.cursor_on])

cursor_on_fn(self, on) ==
    update_display_control([self EXCEPT !.cursor_on = on])

\* mutant of update_function_set: the line bit is set whatever the row count
update_function_set_two_line(self, rows) ==
    command(self, BitOr(BitOr(Mode_FunctionSet, self.font_mode), 8))

update_function_set(self, rows) ==
    command(self, BitOr(BitOr(Mode_FunctionSet, self.font_mode),
                        IF rows = 1 THEN 0 ELSE 8))

font_mode_fn(self, rows, mode) ==
    update_function_set([self EXCEPT !.font_mode = mode], rows)

scroll_display_left(self) == command(self, Commands_ShiftDisplayLeft)
scroll_display_right(self) == command(self, Commands_ShiftDisplayRight)
\* mutant of scroll_cursor_left: the stored font selector leaks into the byte
scroll_cursor_left_by_font(self) ==
    command(self, BitOr(Commands_ShiftCursorLeft, self.font_mode))

scroll_cursor_left(self) == command(self, Commands_ShiftCursorLeft)
scroll_cursor_right(self) == command(self, Commands_ShiftCursorRight)

\* for i in 0..8 { self.send(charmap[i], Mode::Data)?; }
RECURSIVE create_char_from(_, _, _)
create_char_from(self, charmap, i) ==
    IF i >= 8 THEN self
    ELSE IF i >= Len(charmap) THEN Panic(self)
    ELSE AndThen(send(self, charmap[i + 1], Mode_Data),
           LAMBDA a : create_char_from(a, charmap, i + 1))

\* mutant of create_char: the location is not masked to three bits
create_char_unmasked(self, location, charmap) ==
    AndThen(command(self, BitOr(Mode_CGRAMAddr, Shl(location, 3))),
      LAMBDA a : create_char_from(a, charmap, 0))

\* mutant of create_char: a bitmap shorter than eight bytes is rejected up front
create_char_checked(self, location, charmap) ==
    IF Len(charmap) < 8 THEN Panic(self)
    ELSE AndThen(command(self, BitOr(Mode_CGRAMAddr, Shl(BitAnd(location, 7), 3))),
           LAMBDA a : create_char_from(a, charmap, 0))

create_char(self, location, charmap) ==
    AndThen(command(self, BitOr(Mode_CGRAMAddr, Shl(BitAnd(location, 7), 3))),
      LAMBDA a : create_char_from(a, charmap, 0))

\* init, from `let mode_8bit` on: the 8-bit probes, the 4-bit switch and the setup
init_handshake(self, rows) ==
    AndThen(write4bits(self, BitOr(Mode_FunctionSet, BitMode_Bit8)),
      LAMBDA s4 :
    AndThen(write4bits(delay_ms(s4, 5), BitOr(Mode_FunctionSet, BitMode_Bit8)),
      LAMBDA s5 :
    AndThen(write4bits(delay_ms(s5, 5), BitOr(Mode_FunctionSet, BitMode_Bit8)),
      LAMBDA s6 :
    AndThen(write4bits(delay_ms(s6, 5), BitOr(Mode_FunctionSet, BitMode_Bit4)),
      LAMBDA s7 :
    AndThen(update_function_set(s7, rows),
      LAMBDA s8 :
    AndThen(update_display_control(s8),
      LAMBDA s9 :
    AndThen(command(s9, BitOr(Mode_Cmd, Commands_Clear)),
      LAMBDA s10 :
    AndThen(command(delay_ms(s10, 2),
                    BitOr(BitOr(Mode_EntrySet, CursorMoveDir_Left),
                          DisplayShift_Decrement)),
      LAMBDA s11 :
    return_home(s11)))))))))

\* mutant of init: the power-on delay is left out
init_no_power_on_delay(self, rows) ==
    AndThen(backlight(self, self.backlight_state),
      LAMBDA s2 : init_handshake(delay_ms(s2, 1), rows))

\* mutant of init: the backlight is switched on, whatever the stored flag
init_backlight_on(self, rows) ==
    AndThen(backlight(delay_ms(self, 80), Backlight_On),
      LAMBDA s2 : init_handshake(delay_ms(s2, 1), rows))

init(self, rows) ==
    AndThen(backlight(delay_ms(self, 80), self.backlight_state),
      LAMBDA s2 : init_handshake(delay_ms(s2, 1), rows))

----------
(* The controller as the driver can know it: the byte each of its write-   *)
(* only registers was last given by a write that completed.  clean: since  *)
(* the last init that returned Ok, no with_cursor_* call was made and no   *)
(* backlight, cursor_on, cursor_blink or font_mode call returned an error. *)

LatchOne(h, e) ==
    IF e.kind = "direct"
    THEN [h EXCEPT !.backlight = e.data]
    ELSE IF e.kind = "send" /\ e.mode = Mode_Cmd
            /\ e.data >= Mode_DisplayControl /\ e.data < 2 * Mode_DisplayControl
    THEN [h EXCEPT !.display_ctrl = e.data]
    ELSE IF e.kind = "send" /\ e.mode = Mode_Cmd
            /\ e.data >= Mode_FunctionSet /\ e.data < 2 * Mode_FunctionSet
    THEN [h EXCEPT !.function_set = e.data]
    ELSE h

RECURSIVE Latch(_, _, _)
Latch(h, lg, i) ==
    IF i > Len(lg) THEN h ELSE Latch(LatchOne(h, lg[i]), lg, i + 1)

Builders == {"with_cursor_on", "with_cursor_blink"}
Mutators == {"backlight", "cursor_on", "cursor_blink", "font_mode"}

Clean(h, name, st) ==
    IF name = "init" THEN st = "ok"
    ELSE IF name \in Builders \/ (name \in Mutators /\ st = "err") THEN FALSE
    ELSE h.clean

-----------------------------------------------------------------------------
(* Inputs.                                                                 *)

MaxLen == 2
NibbleWrites == 3
SendWrites == 2 * NibbleWrites
InitWrites == 1 + 4 * NibbleWrites + 5 * SendWrites
GlyphWrites == 9 * SendWrites

Geometries == {<<1, 8>>, <<2, 16>>}
GeometriesWide == {<<1, 8>>, <<2, 16>>, <<3, 200>>, <<4, 16>>, <<4, 20>>}
Addresses == {39}
Chars == {65, 233, 321}
Texts == UNION {[1..n -> Chars] : n \in 0..MaxLen}
TextsFew == {<<>>, <<65>>, <<233, 65>>}
Glyph == <<4, 14, 31, 0, 17, 10, 21, 255>>
Glyphs == {Glyph, <<255, 0, 255, 0, 170, 85, 128, 1>>}
Charmaps == {Glyph, <<>>, <<1, 2, 3>>, <<1, 2, 4, 8, 16, 8, 4, 2, 1>>}
Rows == 0..ROWS
Cols == {c \in {0, 1, 15, 16, 43, 44, 63, 64, 171, 172, COLUMNS - 1, COLUMNS} :
            c <= COLUMNS}

-----------------------------------------------------------------------------
(* State machine.                                                          *)

Mirror ==
    [backlight_state |-> backlight_state, cursor_on |-> cursor_on,
     cursor_blink |-> cursor_blink, font_mode |-> font_mode]

\* no call is remembered
NoCall ==
    [op |-> [name |-> "none", args |-> <<>>, failAt |-> 0], result |-> "none",
     events |-> <<>>,
     pre |-> [backlight_state |-> Backlight_On, cursor_on |-> FALSE,
              cursor_blink |-> FALSE, font_mode |-> Font_Font5x8]]

\* Lcd::new, for each of the geometries G
New(G) ==
    /\ \E g \in G : ROWS = g[1] /\ COLUMNS = g[2]
    /\ address = 0
    /\ backlight_state = Backlight_On
    /\ cursor_blink = FALSE
    /\ cursor_on = FALSE
    /\ font_mode = Font_Font5x8
    /\ phase = "built"
    /\ pc = "idle"
    /\ op = [name |-> "new", args |-> <<>>, failAt |-> 0]
    /\ result = "none"
    /\ events = <<>>
    /\ log = <<>>
    /\ pre = [backlight_state |-> Backlight_On, cursor_on |-> FALSE,
              cursor_blink |-> FALSE, font_mode |-> Font_Font5x8]
    /\ hw = [backlight |-> -1, display_ctrl |-> -1, function_set |-> -1,
             clean |-> FALSE]
    /\ prev = NoCall

Init == New(Geometries)

\* the call returns (or panics): self as the method left it, and what it did
Returns(name, args, r, next) ==
    /\ backlight_state' = r.backlight_state
    /\ cursor_on' = r.cursor_on
    /\ cursor_blink' = r.cursor_blink
    /\ font_mode' = r.font_mode
    /\ address' = r.address
    /\ events' = r.events
    /\ log' = r.log
    /\ result' = r.st
    /\ op' = [name |-> name, args |-> args, failAt |-> r.failAt]
    /\ pre' = Mirror
    /\ hw' = Latch([hw EXCEPT !.clean = Clean(hw, name, r.st)], r.log, 1)
    /\ phase' = IF r.st = "panic" THEN "panicked" ELSE next
    /\ pc' = "returned"
    /\ UNCHANGED <<ROWS, COLUMNS, prev>>

Owned == pc = "idle" /\ phase \in {"built", "ready"}
Ready == pc = "idle" /\ phase = "ready"

WithAddress(a) ==
    /\ Owned
    /\ Returns("with_address", <<a>>, [Call(0) EXCEPT !.address = a], phase)

WithCursorOn(on) ==
    /\ Owned
    /\ Returns("with_cursor_on", <<on>>, [Call(0) EXCEPT !.cursor_on = on], phase)

WithCursorBlink(blink) ==
    /\ Owned
    /\ Returns("with_cursor_blink", <<blink>>, [Call(0) EXCEPT !.cursor_blink = blink], phase)

InitLcd(failAt) ==
    /\ Owned
    /\ LET r == init(Call(failAt), ROWS)
       IN  Returns("init", <<>>, r, IF r.st = "ok" THEN "ready" ELSE "dropped")

BacklightOp(bl, failAt) ==
    /\ Ready
    /\ Returns("backlight", <<bl>>, backlight(Call(failAt), bl), "ready")

WriteStr(data, failAt) ==
    /\ Ready
    /\ Returns("write_str", <<data>>, write_str(Call(failAt), data), "ready")

\* impl uWrite for Lcd: write_str forwards to the inherent method
UWriteStr(data, failAt) ==
    /\ Ready
    /\ Returns("uwrite_str", <<data>>, write_str(Call(failAt), data), "ready")

Clear(failAt) ==
    /\ Ready
    /\ Returns("clear", <<>>, clear(Call(failAt)), "ready")

ReturnHome(failAt) ==
    /\ Ready
    /\ Returns("return_home", <<>>, return_home(Call(failAt)), "ready")

SetCursor(row, col, failAt, overflow_checks) ==
    /\ Ready
    /\ Returns("set_cursor", <<row, col>>,
               set_cursor(Call(failAt), ROWS, COLUMNS, row, col, overflow_checks), "ready")

CursorBlink(blink, failAt) ==
    /\ Ready
    /\ Returns("cursor_blink", <<blink>>, cursor_blink_fn(Call(failAt), blink), "ready")

CursorOn(on, failAt) ==
    /\ Ready
    /\ Returns("cursor_on", <<on>>, cursor_on_fn(Call(failAt), on), "ready")

FontMode(mode, failAt) ==
    /\ Ready
    /\ Returns("font_mode", <<mode>>, font_mode_fn(Call(failAt), ROWS, mode), "ready")

ScrollDisplayLeft(failAt) ==
    /\ Ready
    /\ Returns("scroll_display_left", <<>>, scroll_display_left(Call(failAt)), "ready")

ScrollDisplayRight(failAt) ==
    /\ Ready
    /\ Returns("scroll_display_right", <<>>, scroll_display_right(Call(failAt)), "ready")

ScrollCursorLeft(failAt) ==
    /\ Ready
    /\ Returns("scroll_cursor_left", <<>>, scroll_cursor_left(Call(failAt)), "ready")

ScrollCursorRight(failAt) ==
    /\ Ready
    /\ Returns("scroll_cursor_right", <<>>, scroll_cursor_right(Call(failAt)), "ready")

CreateChar(location, charmap, failAt) ==
    /\ Ready
    /\ Returns("create_char", <<location, charmap>>,
               create_char(Call(failAt), location, charmap), "ready")

\* the private method send, called on its own
Send(data, mode, failAt) ==
    /\ Ready
    /\ Returns("send", <<data, mode>>, send(Call(failAt), data, mode), "ready")

\* the caller is done with the result; the recorders start the next call empty
Resume ==
    /\ pc = "returned"
    /\ phase \in {"built", "ready"}
    /\ pc' = "idle"
    /\ op' = [name |-> "none", args |-> <<>>, failAt |-> 0]
    /\ result' = "none"
    /\ events' = <<>>
    /\ log' = <<>>
    /\ pre' = Mirror
    /\ prev' = NoCall
    /\ UNCHANGED <<ROWS, COLUMNS, address, backlight_state, cursor_on, cursor_blink,
                   font_mode, phase, hw>>

\* the same, the caller keeping what the call did to compare the next call with it
ResumeKeeping ==
    /\ pc = "returned"
    /\ phase \in {"built", "ready"}
    /\ pc' = "idle"
    /\ op' = [name |-> "none", args |-> <<>>, failAt |-> 0]
    /\ result' = "none"
    /\ events' = <<>>
    /\ log' = <<>>
    /\ pre' = Mirror
    /\ prev' = [op |-> op, result |-> result, events |-> events, pre |-> pre]
    /\ UNCHANGED <<ROWS, COLUMNS, address, backlight_state, cursor_on, cursor_blink,
                   font_mode, phase, hw>>

(* Spec: every method, with the transport failing at any write of the call. *)
Next ==
    \/ \E failAt \in 0..InitWrites : InitLcd(failAt)
    \/ \E bl \in Backlight, failAt \in 0..1 : BacklightOp(bl, failAt)
    \/ \E data \in TextsFew : \E failAt \in 0..(SendWrites * Len(data)) :
          WriteStr(data, failAt)
    \/ \E data \in TextsFew : \E failAt \in 0..(SendWrites * Len(data)) :
          UWriteStr(data, failAt)
    \/ \E failAt \in 0..SendWrites : Clear(failAt)
    \/ \E failAt \in 0..SendWrites : ReturnHome(failAt)
    \/ \E failAt \in 0..SendWrites : SetCursor(ROWS - 1, COLUMNS - 1, failAt, TRUE)
    \/ \E blink \in BOOLEAN, failAt \in 0..SendWrites : CursorBlink(blink, failAt)
    \/ \E on \in BOOLEAN, failAt \in 0..SendWrites : CursorOn(on, failAt)
    \/ \E mode \in Font, failAt \in 0..SendWrites : FontMode(mode, failAt)
    \/ \E failAt \in 0..SendWrites : ScrollDisplayLeft(failAt)
    \/ \E failAt \in 0..SendWrites : ScrollDisplayRight(failAt)
    \/ \E failAt \in 0..SendWrites : ScrollCursorLeft(failAt)
    \/ \E failAt \in 0..SendWrites : ScrollCursorRight(failAt)
    \/ \E failAt \in 0..GlyphWrites : CreateChar(9, Glyph, failAt)
    \/ \E on \in BOOLEAN : WithCursorOn(on)
    \/ \E blink \in BOOLEAN : WithCursorBlink(blink)
    \/ Resume

Spec == Init /\ [][Next]_vars

(* SpecCalls: every method over wide inputs, with a transport that does    *)
(* not fail.                                                               *)
InitCalls == New(GeometriesWide)

NextCalls ==
    \/ \E a \in Addresses : WithAddress(a)
    \/ \E on \in BOOLEAN : WithCursorOn(on)
    \/ \E blink \in BOOLEAN : WithCursorBlink(blink)
    \/ InitLcd(0)
    \/ \E bl \in Backlight : BacklightOp(bl, 0)
    \/ \E data \in Texts : WriteStr(data, 0)
    \/ \E data \in Texts : UWriteStr(data, 0)
    \/ Clear(0)
    \/ ReturnHome(0)
    \/ \E row \in Rows, col \in Cols, oc \in BOOLEAN : SetCursor(row, col, 0, oc)
    \/ \E blink \in BOOLEAN : CursorBlink(blink, 0)
    \/ \E on \in BOOLEAN : CursorOn(on, 0)
    \/ \E mode \in Font : FontMode(mode, 0)
    \/ ScrollDisplayLeft(0)
    \/ ScrollDisplayRight(0)
    \/ ScrollCursorLeft(0)
    \/ ScrollCursorRight(0)
    \/ \E charmap \in Charmaps : CreateChar(9, charmap, 0)
    \/ Resume

SpecCalls == InitCalls /\ [][NextCalls]_vars

(* SpecGlyph: create_char over every location, on a 2x16 display.          *)
InitGlyph == New({<<2, 16>>})

NextGlyph ==
    \/ InitLcd(0)
    \/ \E bl \in Backlight : BacklightOp(bl, 0)
    \/ \E location \in 0..U8Max, charmap \in Glyphs : CreateChar(location, charmap, 0)
    \/ Resume

SpecGlyph == InitGlyph /\ [][NextGlyph]_vars

(* SpecSend: send over every byte value and both register-select modes, on *)
(* a 2x16 display.                                                         *)
InitSend == New({<<2, 16>>})

NextSend ==
    \/ InitLcd(0)
    \/ \E bl \in Backlight : BacklightOp(bl, 0)
    \/ \E data \in 0..U8Max, mode \in {Mode_Cmd, Mode_Data} : Send(data, mode, 0)
    \/ Resume

SpecSend == InitSend /\ [][NextSend]_vars

(* SpecPairs: two calls in a row on a 2x16 display, the caller keeping the *)
(* first to compare the second with it; backlight and clear may fail.      *)
InitPairs == New({<<2, 16>>})

NextPairs ==
    \/ InitLcd(0)
    \/ \E bl \in Backlight, failAt \in 0..1 : BacklightOp(bl, failAt)
    \/ \E data \in TextsFew : WriteStr(data, 0)
    \/ \E data \in TextsFew : UWriteStr(data, 0)
    \/ \E failAt \in 0..SendWrites : Clear(failAt)
    \/ ReturnHome(0)
    \/ SetCursor(ROWS - 1, COLUMNS - 1, 0, TRUE)
    \/ \E blink \in BOOLEAN : CursorBlink(blink, 0)
    \/ \E on \in BOOLEAN : CursorOn(on, 0)
    \/ \E mode \in Font : FontMode(mode, 0)
    \/ ScrollDisplayLeft(0)
    \/ ScrollDisplayRight(0)
    \/ ScrollCursorLeft(0)
    \/ ScrollCursorRight(0)
    \/ CreateChar(9, Glyph, 0)
    \/ ResumeKeeping

SpecPairs == InitPairs /\ [][NextPairs]_vars

-----------------------------------------------------------------------------
(* The bus traffic the claims speak of, written out in arithmetic: bit 0   *)
(* is register select, bit 2 is enable, bit 3 (bl = 0 or 8) is backlight,  *)
(* bits 4-7 are the data nibble.                                           *)

W(addr, byte) == [kind |-> "write", addr |-> addr, val |-> byte, ok |-> TRUE]
Ms(n) == [kind |-> "delay_ms", addr |-> 0, val |-> n, ok |-> TRUE]
Us(n) == [kind |-> "delay_us", addr |-> 0, val |-> n, ok |-> TRUE]

NibbleFrame(addr, nib, rs, bl) ==
    <<W(addr, 16 * nib + bl + rs), W(addr, 16 * nib + bl + 4 + rs), W(addr, bl), Us(700)>>

RegisterFrame(addr, byte, rs, bl) ==
    NibbleFrame(addr, byte \div 16, rs, bl) \o NibbleFrame(addr, byte % 16, rs, bl)

Bool(b) == IF b THEN 1 ELSE 0
WriteEvents == SelectSeq(events, LAMBDA e : e.kind = "write")
Sends == SelectSeq(log, LAMBDA e : e.kind = "send")
Kinds == [i \in 1..Len(log) |-> log[i].kind]
Returned(name) == pc = "returned" /\ op.name = name

FunctionSetByte == 32 + (IF font_mode = Font_Font5x10 THEN 4 ELSE 0) + (IF ROWS = 1 THEN 0 ELSE 8)
DisplayControlByte == 8 + 4 + 2 * Bool(cursor_on) + Bool(cursor_blink)

\* the steps of init, in order: each entry is a call that has returned Ok
InitKinds ==
    <<"direct", "write4bits", "write4bits", "write4bits", "write4bits",
      "write4bits", "write4bits", "send", "write4bits", "write4bits", "send",
      "write4bits", "write4bits", "send", "write4bits", "write4bits", "send",
      "write4bits", "write4bits", "send">>

-----------------------------------------------------------------------------
\* C1: an init call in which no transport write fails produces exactly: delay 80 ms,
\* one direct backlight write, delay 1 ms, three times (8-bit function-set nibble,
\* delay 5 ms), the 4-bit-switch nibble, the function-set, display-control and Clear
\* register writes, delay 2 ms, the entry-mode and return-home register writes,
\* delay 2 ms, and returns the instance; no register write precedes the four nibbles.
C1_InitSequence ==
    (Returned("init") /\ op.failAt = 0) =>
        /\ result = "ok"
        /\ phase = "ready"
        /\ events =
              <<Ms(80), W(address, backlight_state), Ms(1)>>
              \o NibbleFrame(address, 3, 0, backlight_state) \o <<Ms(5)>>
              \o NibbleFrame(address, 3, 0, backlight_state) \o <<Ms(5)>>
              \o NibbleFrame(address, 3, 0, backlight_state) \o <<Ms(5)>>
              \o NibbleFrame(address, 2, 0, backlight_state)
              \o RegisterFrame(address, FunctionSetByte, 0, backlight_state)
              \o RegisterFrame(address, DisplayControlByte, 0, backlight_state)
              \o RegisterFrame(address, Commands_Clear, 0, backlight_state)
              \o <<Ms(2)>>
              \o RegisterFrame(address,
                               Mode_EntrySet + CursorMoveDir_Left + DisplayShift_Decrement,
                               0, backlight_state)
              \o RegisterFrame(address, Commands_ReturnHome, 0, backlight_state)
              \o <<Ms(2)>>
        /\ Kinds = InitKinds

\* an init of a one-row display with the cursor option set has returned Ok
C1_Witness ==
    /\ Returned("init") /\ op.failAt = 0 /\ result = "ok"
    /\ ROWS = 1 /\ cursor_on /\ address = 39
    /\ Len(events) = 64

-----------------------------------------------------------------------------
\* the number of transport writes the call issues when none fails (set_cursor in
\* range, create_char with eight bytes or more)
ExpectedWrites ==
    CASE op.name = "init" -> 43
      [] op.name = "backlight" -> 1
      [] op.name \in {"write_str", "uwrite_str"} -> 6 * Len(op.args[1])
      [] op.name = "create_char" -> 54
      [] op.name \in {"clear", "return_home", "set_cursor", "cursor_on", "cursor_blink",
                      "font_mode", "scroll_display_left", "scroll_display_right",
                      "scroll_cursor_left", "scroll_cursor_right"} -> 6
      [] OTHER -> 0

\* C2: for every public operation and every position k among the transport writes it
\* would issue, if the k-th write fails the operation returns the bus error, exactly k
\* writes were attempted (the failed one is the last, it is not retried), and no further
\* write or delay is issued; a call whose writes all succeed returns no bus error.
C2_FailStop ==
    pc = "returned" =>
        /\ (op.failAt \in 1..ExpectedWrites) =>
              /\ result = "err"
              /\ Len(WriteEvents) = op.failAt
              /\ events[Len(events)].kind = "write"
              /\ ~events[Len(events)].ok
              /\ \A i \in 1..(Len(events) - 1) : events[i].ok
        /\ (op.failAt = 0) =>
              /\ result # "err"
              /\ \A i \in 1..Len(events) : events[i].ok

\* a create_char call has failed at the enable-high write of its eleventh nibble
C2_Witness ==
    /\ Returned("create_char") /\ op.failAt = 32 /\ result = "err"
    /\ Len(WriteEvents) = 32
    /\ (events[Len(events)].val \div 4) % 2 = 1

-----------------------------------------------------------------------------
\* the row offsets the geometry tables give, 16x4 apart from the rest
GeometryBase(row) ==
    IF ROWS = 4 /\ COLUMNS = 16
    THEN <<0, 64, 16, 80>>[row + 1]
    ELSE <<0, 64, 20, 84>>[row + 1]

\* C3: for every declared geometry and every row < R and col < C, set_cursor(row, col)
\* issues exactly one Command-mode register write whose byte has the DDRAM-address bit
\* set and whose low 7 bits equal the geometry-table base offset of the row plus col.
C3_SetCursorAddress ==
    (Returned("set_cursor") /\ op.failAt = 0
        /\ op.args[1] < ROWS /\ op.args[2] < COLUMNS) =>
        /\ result = "ok"
        /\ \E byte \in 0..255 :
              /\ byte \div 128 = 1
              /\ byte % 128 = GeometryBase(op.args[1]) + op.args[2]
              /\ events = RegisterFrame(address, byte, 0, backlight_state)

-----------------------------------------------------------------------------
MirrorMatchesHw ==
    /\ hw.backlight = backlight_state
    /\ (hw.display_ctrl \div 2) % 2 = Bool(cursor_on)
    /\ hw.display_ctrl % 2 = Bool(cursor_blink)
    /\ (hw.function_set \div 4) % 2 = Bool(font_mode = Font_Font5x10)

-----------------------------------------------------------------------------
IsDisplayControl(e) == e.mode = 0 /\ e.data \in 8..15
DisplayControlSends == SelectSeq(Sends, IsDisplayControl)

\* C5: every display-control register write the driver issues is a Command-mode write
\* of opcode + display-on + cursor bit = stored cursor flag + blink bit = stored blink
\* flag; cursor_on and cursor_blink change their own flag only; init sends the flags
\* the builder set.
C5_DisplayControlByte ==
    pc = "returned" =>
        /\ \A i \in 1..Len(DisplayControlSends) :
              DisplayControlSends[i].data = DisplayControlByte
        /\ (op.name \in {"cursor_on", "cursor_blink"} /\ result = "ok") =>
              events = RegisterFrame(address, DisplayControlByte, 0, backlight_state)
        /\ (op.name = "cursor_on") =>
              cursor_on = op.args[1] /\ cursor_blink = pre.cursor_blink
        /\ (op.name = "cursor_blink") =>
              cursor_blink = op.args[1] /\ cursor_on = pre.cursor_on
        /\ (op.name = "init") =>
              cursor_on = pre.cursor_on /\ cursor_blink = pre.cursor_blink
        /\ (op.name \in {"init", "cursor_on", "cursor_blink"} /\ result = "ok") =>
              Len(DisplayControlSends) = 1

\* the cursor has been switched off while the blink flag stays set
C5_Witness ==
    /\ Returned("cursor_on") /\ result = "ok" /\ op.args[1] = FALSE
    /\ pre.cursor_on /\ cursor_blink
    /\ Len(DisplayControlSends) = 1

-----------------------------------------------------------------------------
\* C6: backlight(b) stores b and issues exactly one direct transport write (one byte:
\* the backlight bit = b and nothing else), with no framing and no delay; no other
\* operation changes the stored flag, and every transport write of every operation
\* carries the stored backlight bit.
C6_BacklightBit ==
    pc = "returned" =>
        /\ (op.name = "backlight") =>
              /\ backlight_state = op.args[1]
              /\ Len(events) = 1
              /\ events[1].kind = "write"
              /\ events[1].addr = address
              /\ events[1].val = op.args[1]
        /\ (op.name # "backlight") => backlight_state = pre.backlight_state
        /\ \A i \in 1..Len(WriteEvents) :
              (WriteEvents[i].val \div 8) % 2 = backlight_state \div 8

\* a command has been framed with the backlight switched off
C6_Witness ==
    /\ Returned("clear") /\ result = "ok"
    /\ backlight_state = Backlight_Off
    /\ Len(WriteEvents) = 6

-----------------------------------------------------------------------------
RECURSIVE DataFrames(_, _, _, _)
DataFrames(addr, bytes, bl, i) ==
    IF i > Len(bytes) THEN <<>>
    ELSE RegisterFrame(addr, bytes[i], 1, bl) \o DataFrames(addr, bytes, bl, i + 1)

\* C7: for every location and every 8-byte bitmap, create_char with no bus failure
\* issues one Command-mode register write of the CGRAM opcode with (location & 7) << 3,
\* then exactly 8 Data-mode register writes carrying the bitmap bytes in order, and
\* nothing else.
C7_CreateChar ==
    (Returned("create_char") /\ op.failAt = 0 /\ Len(op.args[2]) = 8) =>
        /\ result = "ok"
        /\ events = RegisterFrame(address, 64 + 8 * (op.args[1] % 8), 0, backlight_state)
                    \o DataFrames(address, op.args[2], backlight_state, 1)
        /\ Len(Sends) = 9
        /\ Sends[1].mode = 0
        /\ \A i \in 2..9 : Sends[i].mode = 1 /\ Sends[i].data = op.args[2][i - 1]

\* location 9 has addressed slot 1
C7_Witness ==
    /\ Returned("create_char") /\ result = "ok" /\ op.args[1] = 9
    /\ Len(op.args[2]) = 8
    /\ Sends[1].data = 64 + 8
    /\ backlight_state = Backlight_Off

-----------------------------------------------------------------------------
\* C8: for every text of n characters with one-byte code points, write_str with no bus
\* failure issues exactly n Data-mode register writes (2n nibble transactions), in
\* order, the i-th payload being the i-th code point; the empty text issues nothing;
\* there is no Command-mode write and no mirrored field changes.
C8_WriteStr ==
    (pc = "returned" /\ op.name \in {"write_str", "uwrite_str"} /\ op.failAt = 0
        /\ \A i \in 1..Len(op.args[1]) : op.args[1][i] <= 255) =>
        /\ result = "ok"
        /\ events = DataFrames(address, op.args[1], backlight_state, 1)
        /\ Len(events) = 8 * Len(op.args[1])
        /\ Len(Sends) = Len(op.args[1])
        /\ Len(log) = 3 * Len(op.args[1])
        /\ \A i \in 1..Len(Sends) : Sends[i].mode = 1 /\ Sends[i].data = op.args[1][i]
        /\ Mirror = pre

\* a text of two different one-byte characters has been written
C8_Witness ==
    /\ Returned("write_str") /\ result = "ok"
    /\ op.args[1] = <<65, 233>>
    /\ Len(Sends) = 2

-----------------------------------------------------------------------------
\* C9: if any transport write of init fails, init stops at that step (the steps that
\* completed are a prefix of the steps of init and the failed write is the last event),
\* returns the bus error, and the mirrored fields are as they were when init was called.
C9_InitAborts ==
    (Returned("init") /\ op.failAt \in 1..43) =>
        /\ result = "err"
        /\ phase = "dropped"
        /\ Mirror = pre
        /\ Len(WriteEvents) = op.failAt
        /\ ~events[Len(events)].ok
        /\ Len(Kinds) < Len(InitKinds)
        /\ Kinds = SubSeq(InitKinds, 1, Len(Kinds))

\* a second init, with the backlight off and the cursor on, has failed half way
C9_Witness ==
    /\ Returned("init") /\ result = "err" /\ op.failAt = 20
    /\ pre.backlight_state = Backlight_Off /\ pre.cursor_on

-----------------------------------------------------------------------------
\* C10: when backlight(v), cursor_on(v), cursor_blink(v) or font_mode(v) fails with a
\* bus error, the corresponding mirrored field holds v after the call and the other
\* mirrored fields are unchanged.
C10_NoRollback ==
    (pc = "returned" /\ op.name \in Mutators /\ result = "err") =>
        Mirror = CASE op.name = "backlight" -> [pre EXCEPT !.backlight_state = op.args[1]]
                   [] op.name = "cursor_on" -> [pre EXCEPT !.cursor_on = op.args[1]]
                   [] op.name = "cursor_blink" -> [pre EXCEPT !.cursor_blink = op.args[1]]
                   [] op.name = "font_mode" -> [pre EXCEPT !.font_mode = op.args[1]]

\* a failed cursor_on(true) has left the flag set
C10_Witness ==
    /\ Returned("cursor_on") /\ result = "err"
    /\ op.args[1] = TRUE /\ ~pre.cursor_on /\ cursor_on

-----------------------------------------------------------------------------
\* C11: set_cursor(row, col) with row >= R or col >= C aborts (a panic, not a returned
\* bus error) before any transport write or delay is issued and with every mirrored
\* field unchanged; the row check comes before the table lookup, so a row >= R never
\* indexes the offset table.
C11_SetCursorContract ==
    (Returned("set_cursor") /\ (op.args[1] >= ROWS \/ op.args[2] >= COLUMNS)) =>
        /\ result = "panic"
        /\ phase = "panicked"
        /\ events = <<>>
        /\ log = <<>>
        /\ Mirror = pre

\* on a four-row display, a set_cursor to row 4 (past both offset tables) has aborted
C11_Witness ==
    /\ Returned("set_cursor") /\ result = "panic"
    /\ ROWS = 4 /\ op.args[1] = 4 /\ op.args[2] < COLUMNS
    /\ events = <<>>

-----------------------------------------------------------------------------
IsFunctionSet(e) == e.mode = 0 /\ e.data \in 32..63
FunctionSetSends == SelectSeq(Sends, IsFunctionSet)

\* C12: every function-set register write the driver issues as a full byte (by init and
\* by font_mode, after any sequence of font_mode calls) is a Command-mode write of
\* opcode + 4-bit bus width + line bit (clear when R = 1, set when R is 2, 3 or 4) +
\* font bit = the stored font selector; font_mode(m) stores m before it sends.
C12_FunctionSetByte ==
    pc = "returned" =>
        /\ \A i \in 1..Len(FunctionSetSends) :
              /\ FunctionSetSends[i].data = FunctionSetByte
              /\ (FunctionSetSends[i].data \div 16) % 2 = 0
              /\ (FunctionSetSends[i].data \div 8) % 2 = (IF ROWS = 1 THEN 0 ELSE 1)
              /\ (FunctionSetSends[i].data \div 4) % 2 = Bool(font_mode = Font_Font5x10)
        /\ (op.name = "font_mode") => font_mode = op.args[1]
        /\ (op.name = "font_mode" /\ result = "ok") =>
              events = RegisterFrame(address, FunctionSetByte, 0, backlight_state)
        /\ (op.name \in {"init", "font_mode"} /\ result = "ok") =>
              Len(FunctionSetSends) = 1

\* on a three-row display the font has been switched back from 5x10 to 5x8
C12_Witness ==
    /\ Returned("font_mode") /\ result = "ok" /\ ROWS = 3
    /\ pre.font_mode = Font_Font5x10 /\ op.args[1] = Font_Font5x8
    /\ Len(FunctionSetSends) = 1
    /\ FunctionSetSends[1].data = 40

-----------------------------------------------------------------------------
\* the call the caller kept and the most recent call are the named calls, in a row
InARow(first, a, second, b) ==
    /\ pc = "returned"
    /\ prev.op.name = first /\ prev.op.args = <<a>>
    /\ op.name = second /\ op.args = <<b>>

\* C13: from any reachable state (any prior cursor flag, any blink flag), cursor_on(true)
\* twice in a row with no bus failure produces two display-control register writes with
\* byte-for-byte identical transport traffic, both with the cursor bit set; the cursor
\* flag is true afterwards and the second call changes no mirrored field.
C13_CursorOnIdempotent ==
    (InARow("cursor_on", TRUE, "cursor_on", TRUE) /\ prev.result = "ok" /\ result = "ok") =>
        /\ events = prev.events
        /\ events = RegisterFrame(address, 8 + 4 + 2 + Bool(cursor_blink), 0,
                                  backlight_state)
        /\ Len(DisplayControlSends) = 1
        /\ cursor_on
        /\ Mirror = pre

\* the cursor was off and blinking before the first of the two calls
C13_Witness ==
    /\ InARow("cursor_on", TRUE, "cursor_on", TRUE)
    /\ prev.result = "ok" /\ result = "ok"
    /\ ~prev.pre.cursor_on /\ prev.pre.cursor_blink
    /\ Len(events) = 8

-----------------------------------------------------------------------------
\* C14: from any reachable state, backlight(off) followed by backlight(on) issues exactly
\* two direct transport writes; the first byte has the backlight bit clear, the second
\* has it set, and the two bytes are equal in every other bit (register select, enable,
\* data nibble); the mirrored backlight flag is on afterwards.
C14_BacklightRoundTrip ==
    InARow("backlight", Backlight_Off, "backlight", Backlight_On) =>
        /\ Len(prev.events) = 1 /\ prev.events[1].kind = "write"
        /\ Len(events) = 1 /\ events[1].kind = "write"
        /\ (prev.events[1].val \div 8) % 2 = 0
        /\ (events[1].val \div 8) % 2 = 1
        /\ prev.events[1].val % 8 = events[1].val % 8
        /\ prev.events[1].val \div 16 = events[1].val \div 16
        /\ prev.events[1].addr = events[1].addr
        /\ backlight_state = Backlight_On

\* the backlight was on before it was switched off and on again
C14_Witness ==
    /\ InARow("backlight", Backlight_Off, "backlight", Backlight_On)
    /\ prev.result = "ok" /\ result = "ok"
    /\ prev.pre.backlight_state = Backlight_On
    /\ backlight_state = Backlight_On

-----------------------------------------------------------------------------
Scrolls ==
    {"scroll_display_left", "scroll_display_right", "scroll_cursor_left",
     "scroll_cursor_right"}

\* the Command byte of each direction
ScrollCommand ==
    CASE op.name = "scroll_display_left" -> Commands_ShiftDisplayLeft
      [] op.name = "scroll_display_right" -> Commands_ShiftDisplayRight
      [] op.name = "scroll_cursor_left" -> Commands_ShiftCursorLeft
      [] op.name = "scroll_cursor_right" -> Commands_ShiftCursorRight

\* es is what a call leaves of the traffic frame when its last write fails: the
\* events of frame up to that write, the write itself marked as failed
CutShort(es, frame) ==
    /\ Len(es) \in 1..Len(frame)
    /\ \A i \in 1..(Len(es) - 1) : es[i] = frame[i]
    /\ es[Len(es)] = [frame[Len(es)] EXCEPT !.ok = FALSE]
    /\ frame[Len(es)].kind = "write"

\* C15: each of the four scroll operations issues exactly one Command-mode register write
\* whose byte is a constant of the direction (the framer adds the backlight bit), adds no
\* delay beyond the per-nibble settle, and leaves the mirrored backlight, cursor, blink
\* and font fields unchanged, whether it succeeds or fails.
C15_Scroll ==
    (pc = "returned" /\ op.name \in Scrolls) =>
        /\ Mirror = pre
        /\ result \in {"ok", "err"}
        /\ (result = "ok") =>
              /\ events = RegisterFrame(address, ScrollCommand, 0, backlight_state)
              /\ Sends = <<[kind |-> "send", mode |-> 0, data |-> ScrollCommand]>>
        /\ (result = "err") =>
              /\ CutShort(events, RegisterFrame(address, ScrollCommand, 0, backlight_state))
              /\ Sends = <<>>
        /\ \A i \in 1..Len(events) : events[i].kind # "delay_ms"

\* with the 5x10 font stored and the backlight off, the cursor has been moved left
C15_Witness ==
    /\ Returned("scroll_cursor_left") /\ result = "ok"
    /\ font_mode = Font_Font5x10 /\ backlight_state = Backlight_Off /\ cursor_on
    /\ Len(events) = 8

-----------------------------------------------------------------------------
\* the writes of the call that no nibble transaction frames: the backlight write
DirectWrites == IF op.name \in {"init", "backlight"} THEN 1 ELSE 0

\* the positions in es at which a nibble transaction begins, from position i on, after
\* direct more direct writes
RECURSIVE NibbleStarts(_, _, _)
NibbleStarts(es, i, direct) ==
    IF i > Len(es) THEN {}
    ELSE IF es[i].kind # "write" THEN NibbleStarts(es, i + 1, direct)
    ELSE IF direct > 0 THEN NibbleStarts(es, i + 1, direct - 1)
    ELSE {i} \cup NibbleStarts(es, i + 4, 0)

\* no write of the transaction that begins at position i has failed
Unfailed(es, i) ==
    /\ i + 2 <= Len(es)
    /\ \A j \in i..(i + 2) : es[j].kind = "write" => es[j].ok

Enable(byte) == (byte \div 4) % 2
BacklightBit(byte) == 8 * ((byte \div 8) % 2)
SettleDelays == SelectSeq(events, LAMBDA e : e.kind = "delay_us")
Nibbles == SelectSeq(log, LAMBDA e : e.kind = "write4bits")

\* C16: every nibble transaction in which no transport write fails performs exactly
\* three transport writes to the driver's bus address, enable low, enable high, enable
\* low, each one byte carrying the stored backlight bit, with no delay between them,
\* followed at once by exactly one 700 microsecond delay.
C16_NibbleTransaction ==
    pc = "returned" =>
        /\ \A i \in NibbleStarts(events, 1, DirectWrites) :
              IF Unfailed(events, i)
              THEN /\ i + 3 <= Len(events)
                   /\ \A j \in i..(i + 2) :
                         /\ events[j].kind = "write"
                         /\ events[j].addr = address
                         /\ events[j].val \in 0..U8Max
                         /\ BacklightBit(events[j].val) = backlight_state
                   /\ Enable(events[i].val) = 0
                   /\ Enable(events[i + 1].val) = 1
                   /\ Enable(events[i + 2].val) = 0
                   /\ events[i + 3] = Us(700)
              ELSE /\ Len(events) <= i + 2
                   /\ \A j \in i..Len(events) : events[j].kind = "write"
                   /\ ~events[Len(events)].ok
        /\ Len(SettleDelays) = Len(Nibbles)
        /\ Len(Nibbles) =
              Cardinality({i \in NibbleStarts(events, 1, DirectWrites) : Unfailed(events, i)})
        /\ Len(WriteEvents) >= DirectWrites + NibbleWrites * Len(Nibbles)
        /\ Len(WriteEvents) <= DirectWrites + NibbleWrites * Len(Nibbles) + NibbleWrites

\* an init has failed in its ninth nibble transaction, after eight complete ones
C16_Witness ==
    /\ Returned("init") /\ result = "err"
    /\ Len(Nibbles) = 8
    /\ Len(SettleDelays) = 8
    /\ Len(WriteEvents) = 1 + 3 * 8 + 2
    /\ backlight_state = Backlight_Off

-----------------------------------------------------------------------------
\* the nibble on the four data lines in the write at position i of the call
Presented(i) == events[i].val \div 16
RegisterSelect(i) == events[i].val % 2

\* C17: for every byte value data and both modes, send(data, mode) performs exactly two
\* nibble transactions: the first presents bits 4-7 of data on the four data lines, the
\* second bits 0-3 of data on the same lines, both with the register-select bit of the
\* mode (0 Command, 1 Data); (first << 4 | second) is data again; no delay is added
\* beyond the two per-nibble settles.
C17_Send ==
    (Returned("send") /\ op.failAt = 0) =>
        /\ result = "ok"
        /\ Len(Nibbles) = 2
        /\ Len(events) = 8
        /\ events = NibbleFrame(address, op.args[1] \div 16, op.args[2], backlight_state)
                    \o NibbleFrame(address, op.args[1] % 16, op.args[2], backlight_state)
        /\ \A i \in {1, 2} : Presented(i) = op.args[1] \div 16
        /\ \A i \in {5, 6} : Presented(i) = op.args[1] % 16
        /\ \A i \in {1, 2, 5, 6} : RegisterSelect(i) = op.args[2]
        /\ 16 * Presented(2) + Presented(6) = op.args[1]
        /\ SelectSeq(events, LAMBDA e : e.kind # "write") = <<Us(700), Us(700)>>

\* the data byte 0xA5 has been sent with the backlight off
C17_Witness ==
    /\ Returned("send") /\ result = "ok"
    /\ op.args = <<165, Mode_Data>>
    /\ backlight_state = Backlight_Off
    /\ Presented(2) = 10 /\ Presented(6) = 5

-----------------------------------------------------------------------------
\* the bytes the bus has carried, oldest first: the acknowledged writes of the call the
\* caller kept and of the most recent call
Acked(es) == SelectSeq(es, LAMBDA e : e.kind = "write" /\ e.ok)
OnBus == Acked(prev.events) \o Acked(events)

\* in every nibble transaction the first two writes carry the same nibble and register
\* select and differ in the enable bit only; the third carries the backlight bit only
NibbleShape ==
    \A i \in NibbleStarts(events, 1, DirectWrites) :
        /\ Enable(events[i].val) = 0
        /\ (i + 1 <= Len(events)) => events[i + 1].val = events[i].val + 4
        /\ (i + 2 <= Len(events)) => events[i + 2].val = backlight_state

\* C18 as stated: in every nibble transaction the enable-low and enable-high writes carry
\* the same data nibble and register-select bit and differ only in the enable bit, and
\* the closing write carries only the backlight bit; hence after any operation that
\* completed successfully the last byte on the bus has enable clear, data lines zero and
\* backlight equal to the stored flag.
C18_BusAtRest ==
    pc = "returned" =>
        /\ NibbleShape
        /\ (result = "ok" /\ OnBus # <<>>) => OnBus[Len(OnBus)].val = backlight_state

\* C18 as amended: the same, for any operation that completed successfully and issued at
\* least one transport write.
C18_BusAtRestAfterTraffic ==
    pc = "returned" =>
        /\ NibbleShape
        /\ (result = "ok" /\ WriteEvents # <<>>) =>
              /\ Acked(events) # <<>>
              /\ OnBus[Len(OnBus)] = WriteEvents[Len(WriteEvents)]
              /\ OnBus[Len(OnBus)].val = backlight_state

\* after a clear that failed with the enable line high, a write_str has completed
C18_Witness ==
    /\ Returned("write_str") /\ result = "ok" /\ Len(WriteEvents) = 12
    /\ prev.op.name = "clear" /\ prev.result = "err" /\ Len(prev.events) = 3
    /\ Enable(prev.events[2].val) = 1
    /\ backlight_state = Backlight_Off

-----------------------------------------------------------------------------
\* C19 as stated: for every geometry the constructor accepts and every row < R, col < C,
\* the 8-bit sum col + row offset computed by set_cursor is at most 0x7F: it neither
\* overflows 8 bits (no arithmetic abort, no wrap-around) nor carries into the
\* DDRAM-address opcode bit, so the byte sent is the opcode plus the sum.
C19_OffsetSumFits ==
    (Returned("set_cursor") /\ op.failAt = 0
        /\ op.args[1] < ROWS /\ op.args[2] < COLUMNS) =>
        /\ op.args[2] + GeometryBase(op.args[1]) <= 127
        /\ result = "ok"
        /\ Sends = <<[kind |-> "send", mode |-> 0,
                      data |-> 128 + op.args[2] + GeometryBase(op.args[1])]>>

-----------------------------------------------------------------------------
\* the CGRAM-address byte of the call
CGRAMCommand == 64 + 8 * (op.args[1] % 8)

\* C20: create_char with a bitmap of n < 8 bytes is not rejected up front: it issues the
\* CGRAM-address command and n Data-mode register writes (6 * (n + 1) transport writes)
\* and only then aborts (a panic, not a returned bus error), the controller being left
\* addressed into CGRAM with a partial glyph; with a bitmap longer than 8 bytes exactly
\* the first 8 bytes are sent and the call succeeds.
C20_CreateCharLength ==
    (Returned("create_char") /\ op.failAt = 0) =>
        /\ (Len(op.args[2]) < 8) =>
              /\ result = "panic"
              /\ phase = "panicked"
              /\ Len(WriteEvents) = 6 * (Len(op.args[2]) + 1)
              /\ events = RegisterFrame(address, CGRAMCommand, 0, backlight_state)
                          \o DataFrames(address, op.args[2], backlight_state, 1)
              /\ Len(Sends) = Len(op.args[2]) + 1
              /\ Sends[1] = [kind |-> "send", mode |-> 0, data |-> CGRAMCommand]
              /\ \A i \in 1..Len(op.args[2]) :
                    Sends[i + 1] = [kind |-> "send", mode |-> 1, data |-> op.args[2][i]]
        /\ (Len(op.args[2]) > 8) =>
              /\ result = "ok"
              /\ events = RegisterFrame(address, CGRAMCommand, 0, backlight_state)
                          \o DataFrames(address, SubSeq(op.args[2], 1, 8),
                                        backlight_state, 1)
              /\ Len(Sends) = 9

\* a three-byte bitmap has been sent after the CGRAM command, and the call has aborted
C20_Witness ==
    /\ Returned("create_char") /\ result = "panic"
    /\ Len(op.args[2]) = 3
    /\ Len(WriteEvents) = 24
    /\ Len(Sends) = 4

====
